---- MODULE Spec2Model ----
\* State-machine model of the onkey piano tuner: the App workflow
\* (src/ui/app.rs), its screens (src/ui/screens/*.rs), the note table
\* (src/tuning/notes.rs), the temperament arithmetic
\* (src/tuning/temperament.rs), the stretch curve (src/tuning/stretch.rs)
\* and the YIN pitch detector (src/audio/pitch.rs).
\*
\* Numbers.  f32 frequencies are fixed-point integers in centi-Hz
\* (440 Hz = 44000); cents deviations are whole cents; confidences given
\* to the App are percentages (0.8 = 80).
EXTENDS Integers, Sequences, FiniteSets, TLC

\* ---------------------------------------------------------------------
\* Option<T>: None is the empty sequence, Some(x) the one-element sequence.
None == <<>>
Some(x) == <<x>>
IsSome(o) == o # <<>>
Unwrap(o) == o[1]

Abs(x) == IF x < 0 THEN 0 - x ELSE x

\* The sum of a sequence of numbers (iter().sum()).
RECURSIVE SumSeq(_)
SumSeq(s) == IF s = <<>> THEN 0 ELSE Head(s) + SumSeq(Tail(s))

\* ---------------------------------------------------------------------
\* Bounds of the model (not program constants).

\* Number of history-making off-nominal inputs in one run: an above-gate
\* detection during tuning, an accepted calibration sample other than
\* 440 Hz, a failed session save.
MaxPerturb == 1

\* ---------------------------------------------------------------------
\* Program constants.
NoteCount == 88
TargetSamples == 10
DefaultA4 == 44000
CalibrationBandLow == 40000
CalibrationBandHigh == 48000
CalibrationGate == 80
TuningGate == 60
ToleranceCents == 5
WarningCents == 15

\* ---------------------------------------------------------------------
\* tuning/notes.rs

NOTE_NAMES == <<"A", "A#", "B", "C", "C#", "D", "D#", "E", "F", "F#", "G", "G#">>

\* Mutant: the last single-string key is MIDI 33.
generate_note_MonochordBelow34(i) ==
    LET midi == i + 21
        octave == IF i < 3 THEN 0 ELSE ((i - 3) \div 12) + 1
        note_idx == i % 12
        strings == IF midi < 34 THEN 1 ELSE IF midi <= 56 THEN 2 ELSE 3
    IN [midi |-> midi, name |-> NOTE_NAMES[note_idx + 1],
        octave |-> octave, strings |-> strings]

\* generate_notes(): entry i (0-based) of the table.
generate_note(i) ==
    LET midi == i + 21
        octave == IF i < 3 THEN 0 ELSE ((i - 3) \div 12) + 1
        note_idx == i % 12
        strings == IF midi <= 34 THEN 1 ELSE IF midi <= 56 THEN 2 ELSE 3
    IN [midi |-> midi, name |-> NOTE_NAMES[note_idx + 1],
        octave |-> octave, strings |-> strings]

\* NOTES, indexed 1..88 (entry i of the Rust array is NOTES[i + 1]).
NOTES == [k \in 1..NoteCount |-> generate_note(k - 1)]

\* Note::display_name: format!("{}{}", name, octave), kept as the pair.
display_name(note) == <<note.name, note.octave>>

\* Note::from_midi.
Note_from_midi(midi) ==
    IF midi < 21 \/ midi > 108 THEN None
    ELSE IF midi - 21 < NoteCount THEN Some(NOTES[midi - 21 + 1]) ELSE None

\* notes::note_at(index): NOTES.get(index).
note_at(index) ==
    IF index >= 0 /\ index < NoteCount THEN Some(NOTES[index + 1]) ELSE None

\* TuningOrder::note_at (tuning/order.rs): the chromatic traversal.
order_note_at(index) == note_at(index)

\* ---------------------------------------------------------------------
\* tuning/temperament.rs

RatioScale == 10000

\* 2^(k/12) for k = 0..11, scaled by RatioScale.
SemitoneRatio == <<10000, 10595, 11225, 11892, 12599, 13348,
                   14142, 14983, 15874, 16818, 17818, 18877>>

RECURSIVE Pow2(_)
Pow2(n) == IF n <= 0 THEN 1 ELSE 2 * Pow2(n - 1)

FractionBits == 6

\* Mutant: the reference key is MIDI 60.
frequency_fine_ReferenceAtC4(a4, midi) ==
    LET semis == midi - 60
        oct == semis \div 12
        rem == semis % 12
        base == (a4 * SemitoneRatio[rem + 1]) \div RatioScale
    IN IF oct + FractionBits >= 0 THEN base * Pow2(oct + FractionBits)
       ELSE base \div Pow2(0 - (oct + FractionBits))

\* Temperament::frequency: a4 * 2^((midi - 69) / 12), in units of
\* 2^-FractionBits centi-Hz.
frequency_fine(a4, midi) ==
    LET semis == midi - 69
        oct == semis \div 12
        rem == semis % 12
        base == (a4 * SemitoneRatio[rem + 1]) \div RatioScale
    IN IF oct + FractionBits >= 0 THEN base * Pow2(oct + FractionBits)
       ELSE base \div Pow2(0 - (oct + FractionBits))

\* Temperament::frequency in whole centi-Hz.
frequency(a4, midi) == frequency_fine(a4, midi) \div Pow2(FractionBits)

LogScale == 16384
LogBits == 12

\* Fractional bits of log2(x / LogScale) for LogScale <= x < 2 * LogScale,
\* by repeated squaring; the result is scaled by 2^bits.
RECURSIVE Log2Frac(_, _)
Log2Frac(x, bits) ==
    IF bits = 0 THEN 0
    ELSE LET sq == (x * x) \div LogScale
         IN IF sq >= 2 * LogScale
            THEN Pow2(bits - 1) + Log2Frac(sq \div 2, bits - 1)
            ELSE Log2Frac(sq, bits - 1)

\* 1200 * log2(x / LogScale), in whole cents, for any x > 0.
RECURSIVE CentsOfRatio(_)
CentsOfRatio(x) ==
    IF x >= 2 * LogScale THEN 1200 + CentsOfRatio(x \div 2)
    ELSE IF x < LogScale THEN CentsOfRatio(2 * x) - 1200
    ELSE (1200 * Log2Frac(x, LogBits) + Pow2(LogBits - 1)) \div Pow2(LogBits)

\* Temperament::cents_from_target: 1200 * log2(frequency / target).
\* Both operands are first divided by a common factor so that the
\* fixed-point quotient stays within 32 bits.
cents_from_target(freq, target) ==
    LET k == (target \div 32768) + 1
        f == freq \div k
        t == target \div k
    IN CentsOfRatio((f * LogScale + t \div 2) \div t)

\* Temperament::new / Temperament::with_a4 / Temperament::a4: the
\* temperament is its one field, the A4 reference.
Temperament_new == DefaultA4
Temperament_with_a4(a4_freq) == a4_freq

\* ---------------------------------------------------------------------
\* tuning/stretch.rs.  Offsets are whole milli-cents.

StretchCenter == 60
StretchRange == 44
StretchGain == 20
MilliCents == 1000

\* f32::signum: 1.0 for +0.0 and above, -1.0 below.
signum(x) == IF x < 0 THEN 0 - 1 ELSE 1

\* Mutant: the sign of the position is dropped.
calculate_stretch_Unsigned(midi) ==
    LET x == midi - StretchCenter
    IN (StretchGain * MilliCents * x * x) \div (StretchRange * StretchRange)

\* StretchCurve::calculate_stretch: 20.0 * x * x * x.signum() with
\* x = (midi - 60) / 44; the two divisions by 44 are made last.
calculate_stretch(midi) ==
    LET x == midi - StretchCenter
    IN signum(x) *
       ((StretchGain * MilliCents * x * x) \div (StretchRange * StretchRange))

\* StretchCurve::new / generate_railsback_curve: the 88 offsets, indexed
\* 1..88 (entry i of the Rust array is StretchCurve_new[i + 1]).
StretchCurve_new == [k \in 1..NoteCount |-> calculate_stretch(k - 1 + 21)]

\* StretchCurve::offset_cents.
offset_cents(midi_note) ==
    IF midi_note < 21 \/ midi_note > 108 THEN 0
    ELSE StretchCurve_new[midi_note - 21 + 1]

GrowthScale == 100000
Ln2Scaled == 5776

\* 2^(cents / 1200) - 1 in units of 1 / GrowthScale, for offsets given in
\* milli-cents: r + r^2 / 2 with r = cents * ln(2) / 1200.
PowCentsGrowth(mc) ==
    LET r == (mc * Ln2Scaled) \div GrowthScale
    IN r + (r * r) \div (2 * GrowthScale)

\* StretchCurve::apply: base_frequency * 2^(offset_cents / 1200).
StretchCurve_apply(base_frequency, midi_note) ==
    base_frequency +
        (base_frequency * PowCentsGrowth(offset_cents(midi_note))) \div GrowthScale

\* ---------------------------------------------------------------------
\* audio/pitch.rs.  Samples are whole amplitude units; values of the
\* normalised difference function and thresholds are per-mille
\* (1.0 = CmndScale); lags refined by interpolation are in units of
\* 1 / TauScale; confidences of a PitchResult are per-mille.

CmndScale == 1000
TauScale == 100
DefaultThreshold == 100
DefaultMinFrequency == 2750
DefaultMaxFrequency == 418600
DipRise == 10
FallbackLimit == 500

Min(a, b) == IF a < b THEN a ELSE b

\* f32 division of a by b # 0, rounded toward zero.
Quot(a, b) == signum(a) * signum(b) * (Abs(a) \div Abs(b))

PitchDetector_new(sample_rate) ==
    [sample_rate |-> sample_rate,
     threshold |-> DefaultThreshold,
     min_frequency |-> DefaultMinFrequency,
     max_frequency |-> DefaultMaxFrequency]

with_threshold(d, threshold) == [d EXCEPT !.threshold = threshold]

with_frequency_range(d, min, max) ==
    [d EXCEPT !.min_frequency = min, !.max_frequency = max]

\* detect, lines 54-56: the lag range searched for a buffer of n samples.
tau_min_of(d) == (d.sample_rate * 100) \div d.max_frequency
tau_max_of(d, n) == Min((d.sample_rate * 100) \div d.min_frequency, n \div 2)

\* Mutant: the lower lag bound is not compared with the upper one.
detect_rejects_IgnoresCollapse(d, samples) ==
    \/ Len(samples) < 2
    \/ tau_max_of(d, Len(samples)) >= Len(samples) \div 2

\* detect, lines 49-60: the input is rejected before any analysis.
detect_rejects(d, samples) ==
    \/ Len(samples) < 2
    \/ tau_max_of(d, Len(samples)) <= tau_min_of(d)
    \/ tau_max_of(d, Len(samples)) >= Len(samples) \div 2

\* difference_function: diff[0] = 0 and, for 1 <= tau <= max_tau, the sum
\* over j in 0 .. len - max_tau - 1 of (x[j] - x[j + tau])^2.
difference_function(samples, max_tau) ==
    [tau \in 0..max_tau |->
        IF tau = 0 THEN 0
        ELSE SumSeq([k \in 1..(Len(samples) - max_tau) |->
                        (samples[k] - samples[k + tau]) *
                        (samples[k] - samples[k + tau])])]

\* cumulative_mean_normalized_difference.
cumulative_mean_normalized_difference(diff, max_tau) ==
    [tau \in 0..max_tau |->
        IF tau = 0 THEN CmndScale
        ELSE LET running_sum == SumSeq([k \in 1..tau |-> diff[k]])
             IN IF running_sum > 0
                THEN (diff[tau] * tau * CmndScale) \div running_sum
                ELSE CmndScale]

\* find_threshold_crossing, lines 141-149: the minimum of the dip entered
\* at a lag below the threshold, scanning t up to tau_max (exclusive).
RECURSIVE dip_minimum(_, _, _, _, _)
dip_minimum(cmnd, t, tau_max, min_tau, min_val) ==
    IF t >= tau_max THEN min_tau
    ELSE IF cmnd[t] < min_val THEN dip_minimum(cmnd, t + 1, tau_max, t, cmnd[t])
    ELSE IF cmnd[t] > min_val + DipRise THEN min_tau
    ELSE dip_minimum(cmnd, t + 1, tau_max, min_tau, min_val)

\* find_threshold_crossing, lines 156-165: the first lag of minimal value
\* in tau_min .. tau_max - 1.
RECURSIVE absolute_minimum(_, _, _, _)
absolute_minimum(cmnd, tau, tau_max, min_tau) ==
    IF tau >= tau_max THEN min_tau
    ELSE absolute_minimum(cmnd, tau + 1, tau_max,
                          IF cmnd[tau] < cmnd[min_tau] THEN tau ELSE min_tau)

\* Mutant: the search for a lag below the threshold includes tau_max.
find_threshold_crossing_SearchesThroughTauMax(d, cmnd, tau_min, tau_max) ==
    LET below == {tau \in tau_min..tau_max : cmnd[tau] < d.threshold}
    IN IF below # {}
       THEN LET tau == CHOOSE t \in below : \A u \in below : t <= u
            IN Some(dip_minimum(cmnd, tau + 1, tau_max, tau, cmnd[tau]))
       ELSE LET min_tau == absolute_minimum(cmnd, tau_min + 1, tau_max, tau_min)
            IN IF cmnd[min_tau] < FallbackLimit THEN Some(min_tau) ELSE None

\* Mutant: the fallback accepts the absolute minimum whatever its value.
find_threshold_crossing_AcceptsAnyMinimum(d, cmnd, tau_min, tau_max) ==
    LET below == {tau \in tau_min..(tau_max - 1) : cmnd[tau] < d.threshold}
    IN IF below # {}
       THEN LET tau == CHOOSE t \in below : \A u \in below : t <= u
            IN Some(dip_minimum(cmnd, tau + 1, tau_max, tau, cmnd[tau]))
       ELSE Some(absolute_minimum(cmnd, tau_min + 1, tau_max, tau_min))

\* find_threshold_crossing: the chosen lag, or None.
find_threshold_crossing(d, cmnd, tau_min, tau_max) ==
    LET below == {tau \in tau_min..(tau_max - 1) : cmnd[tau] < d.threshold}
    IN IF below # {}
       THEN LET tau == CHOOSE t \in below : \A u \in below : t <= u
            IN Some(dip_minimum(cmnd, tau + 1, tau_max, tau, cmnd[tau]))
       ELSE LET min_tau == absolute_minimum(cmnd, tau_min + 1, tau_max, tau_min)
            IN IF cmnd[min_tau] < FallbackLimit THEN Some(min_tau) ELSE None

\* parabolic_interpolation: the refined lag, in units of 1 / TauScale.
\* cmnd has max_tau + 1 entries.
parabolic_interpolation(cmnd, max_tau, tau) ==
    IF tau = 0 \/ tau >= max_tau THEN tau * TauScale
    ELSE LET s0 == cmnd[tau - 1]
             s1 == cmnd[tau]
             s2 == cmnd[tau + 1]
             denominator == 2 * (s0 - 2 * s1 + s2)
         IN IF denominator = 0 THEN tau * TauScale
            ELSE LET delta == Quot((s0 - s2) * TauScale, denominator)
                 IN tau * TauScale +
                    (IF delta < 0 - TauScale THEN 0 - TauScale
                     ELSE IF delta > TauScale THEN TauScale ELSE delta)

\* Lines 75-83: the PitchResult for the chosen lag.  The frequency is in
\* centi-Hz; a division by a refined lag of 0 gives an infinite f32,
\* recorded as finite = FALSE.
pitch_result(d, cmnd, max_tau, tau) ==
    LET refined_tau == parabolic_interpolation(cmnd, max_tau, tau)
    IN [frequency |-> IF refined_tau = 0 THEN 0
                      ELSE (d.sample_rate * 100 * TauScale) \div refined_tau,
        finite |-> refined_tau # 0,
        confidence |-> CmndScale - Min(cmnd[tau], CmndScale)]

\* The lag chosen by steps 1 to 4 of detect for an input that is analysed.
chosen_lag(d, samples) ==
    LET tau_max == tau_max_of(d, Len(samples))
        diff == difference_function(samples, tau_max)
        cmnd == cumulative_mean_normalized_difference(diff, tau_max)
    IN find_threshold_crossing(d, cmnd, tau_min_of(d), tau_max)

\* PitchDetector::detect.
detect(d, samples) ==
    IF detect_rejects(d, samples) THEN None
    ELSE LET tau_max == tau_max_of(d, Len(samples))
             diff == difference_function(samples, tau_max)
             cmnd == cumulative_mean_normalized_difference(diff, tau_max)
             tau == find_threshold_crossing(d, cmnd, tau_min_of(d), tau_max)
         IN IF IsSome(tau)
            THEN Some(pitch_result(d, cmnd, tau_max, Unwrap(tau)))
            ELSE None

\* ---------------------------------------------------------------------
\* audio/traits.rs.  A source is a record tagged with its kind; the
\* samples of the in-memory source are integers standing for f32 values.

TestAudioSource_new(samples) ==
    [kind |-> "test", samples |-> samples, position |-> 0]

TestAudioSource_reset(s) == [s EXCEPT !.position = 0]

\* Mutant: the read position is left where it was.
TestAudioSource_read_samples_KeepsPosition(s, buf) ==
    LET remaining == Len(s.samples) - s.position
        to_read == Min(Len(buf), remaining)
    IN [source |-> s,
        buffer |-> [k \in 1..Len(buf) |->
                       IF k <= to_read THEN s.samples[s.position + k]
                       ELSE buf[k]],
        count |-> to_read]

\* read_samples of TestAudioSource: the source and the caller's buffer
\* after the call, and the count returned.
TestAudioSource_read_samples(s, buf) ==
    LET remaining == Len(s.samples) - s.position
        to_read == Min(Len(buf), remaining)
    IN [source |-> [s EXCEPT !.position = @ + to_read],
        buffer |-> [k \in 1..Len(buf) |->
                       IF k <= to_read THEN s.samples[s.position + k]
                       ELSE buf[k]],
        count |-> to_read]

\* An f32 sample of the WAV source is the quotient num / den of two i32
\* values, kept unevaluated.
Quotient(num, den) == [num |-> num, den |-> den]

I32Min == (0 - Pow2(30)) - Pow2(30)

I32Max == (Pow2(30) - 1) + Pow2(30)

\* 1 << n on an i32 for n < 32: bit n alone, which for n = 31 is the
\* sign bit.
shl_one(n) == IF n < 31 THEN Pow2(n) ELSE I32Min

\* The reader of a WavAudioSource: the format and bit depth of its spec,
\* the samples of the file and how many of them have been consumed.
WavAudioSource_new(sample_format, bits_per_sample, data) ==
    [kind |-> "wav", sample_format |-> sample_format,
     bits_per_sample |-> bits_per_sample, data |-> data, position |-> 0]

\* read_samples of WavAudioSource.  Float samples are copied; an integer
\* sample s is delivered as s / max_val.
WavAudioSource_read_samples(w, buf) ==
    LET count == Min(Len(buf), Len(w.data) - w.position)
        max_val == shl_one(w.bits_per_sample - 1)
    IN [source |-> [w EXCEPT !.position = @ + count],
        buffer |-> [k \in 1..Len(buf) |->
                       IF k <= count
                       THEN IF w.sample_format = "Float"
                            THEN w.data[w.position + k]
                            ELSE Quotient(w.data[w.position + k], max_val)
                       ELSE buf[k]],
        count |-> count]

\* ---------------------------------------------------------------------
\* ui/components/instructions.rs

\* Mutant: the step after MuteOuter is TuneLeft.
TuningStep_next_SkipsCenter(step) ==
    CASE step = "MuteOuter" -> "TuneLeft"
      [] step = "TuneCenter" -> "TuneLeft"
      [] step = "TuneLeft" -> "TuneRight"
      [] OTHER -> "None"

\* TuningStep::next; "None" stands for Option::None.
TuningStep_next(step) ==
    CASE step = "MuteOuter" -> "TuneCenter"
      [] step = "TuneCenter" -> "TuneLeft"
      [] step = "TuneLeft" -> "TuneRight"
      [] OTHER -> "None"

\* ---------------------------------------------------------------------
\* ui/screens/tuning.rs

TuningScreen_new(note_name, note_index, total_notes, target_freq, string_count) ==
    [note_name |-> note_name,
     note_index |-> note_index,
     total_notes |-> total_notes,
     target_freq |-> target_freq,
     detected_freq |-> None,
     cents_deviation |-> 0,
     string_count |-> string_count,
     tuning_step |-> IF string_count = 3 THEN "MuteOuter" ELSE "None",
     phase_name |-> IF string_count = 3 THEN "Trichord"
                    ELSE IF string_count = 2 THEN "Bichord" ELSE "Single"]

TuningScreen_update(t, freq, cents) ==
    [t EXCEPT !.detected_freq = Some(freq), !.cents_deviation = cents]

TuningScreen_clear(t) ==
    [t EXCEPT !.detected_freq = None, !.cents_deviation = 0]

TuningScreen_is_trichord(t) == t.string_count = 3

\* TuningScreen::next_step: the screen after the call and the returned flag.
TuningScreen_next_step(t) ==
    IF t.tuning_step # "None" /\ TuningStep_next(t.tuning_step) # "None"
    THEN [screen |-> [t EXCEPT !.tuning_step = TuningStep_next(t.tuning_step)],
          advanced |-> TRUE]
    ELSE [screen |-> t, advanced |-> FALSE]

TuningScreen_is_complete(t) ==
    IF t.string_count = 3
    THEN /\ t.tuning_step = "TuneRight"
         /\ Abs(t.cents_deviation) <= ToleranceCents
         /\ IsSome(t.detected_freq)
    ELSE Abs(t.cents_deviation) <= ToleranceCents /\ IsSome(t.detected_freq)

\* ---------------------------------------------------------------------
\* ui/screens/calibration.rs

CalibrationScreen_new ==
    [samples |-> <<>>, target_samples |-> TargetSamples,
     current_freq |-> None, listening |-> TRUE]

\* Mutant: the upper end of the band is exclusive.
CalibrationScreen_update_ExclusiveBand(c, freq) ==
    IF freq >= CalibrationBandLow /\ freq < CalibrationBandHigh
    THEN [c EXCEPT !.current_freq = Some(freq), !.samples = Append(@, freq)]
    ELSE c

CalibrationScreen_update(c, freq) ==
    IF freq >= CalibrationBandLow /\ freq <= CalibrationBandHigh
    THEN [c EXCEPT !.current_freq = Some(freq), !.samples = Append(@, freq)]
    ELSE c

CalibrationScreen_clear(c) == [c EXCEPT !.current_freq = None]

CalibrationScreen_is_complete(c) == Len(c.samples) >= c.target_samples

\* Mutant: the result is the most recent sample.
CalibrationScreen_result_LastSample(c) ==
    IF c.samples = <<>> THEN None
    ELSE Some(c.samples[Len(c.samples)])

CalibrationScreen_result(c) ==
    IF c.samples = <<>> THEN None
    ELSE Some(SumSeq(c.samples) \div Len(c.samples))

CalibrationScreen_reset(c) ==
    [c EXCEPT !.samples = <<>>, !.current_freq = None, !.listening = TRUE]

\* ---------------------------------------------------------------------
\* ui/screens/complete.rs

CompleteScreen_new(completed_notes) ==
    LET n == Len(completed_notes)
        dev == [k \in 1..n |-> Abs(completed_notes[k].final_cents)]
    IN [completed_notes |-> completed_notes,
        avg_deviation |-> IF n = 0 THEN 0 ELSE SumSeq(dev) \div n,
        notes_in_tune |-> Cardinality({k \in 1..n : dev[k] <= ToleranceCents}),
        notes_warning |->
            Cardinality({k \in 1..n : dev[k] > ToleranceCents /\ dev[k] <= WarningCents}),
        notes_out_of_tune |-> Cardinality({k \in 1..n : dev[k] > WarningCents}),
        duration_secs |-> 0]

\* ---------------------------------------------------------------------
\* ui/screens/mode_select.rs

ModeSelectScreen_new == "QuickTune"

ModeSelectScreen_next(m) == IF m = "QuickTune" THEN "ConcertPitch" ELSE "QuickTune"

\* ---------------------------------------------------------------------
\* tuning/session.rs

Session_new(mode, a4_reference) ==
    [mode |-> mode, a4_reference |-> a4_reference,
     current_note_index |-> 0, completed_notes |-> <<>>]

Session_complete_note(s, note_name, final_cents) ==
    [s EXCEPT !.completed_notes =
        Append(@, [note_name |-> note_name, final_cents |-> final_cents])]

\* Session::save on the app record a: the snapshot reaches the disk when
\* the write succeeds (ok) and the disk keeps its content when it fails.
Session_save(a, ok) ==
    IF ok /\ IsSome(a.session) THEN [a EXCEPT !.disk = a.session] ELSE a

\* ---------------------------------------------------------------------
\* ui/app.rs.  An app record a carries the fields of struct App and, as
\* field disk, the session snapshot held by the persistence layer.

App_new ==
    [state |-> "ModeSelect",
     session |-> None,
     should_quit |-> FALSE,
     mode_select |-> ModeSelectScreen_new,
     calibration |-> CalibrationScreen_new,
     tuning |-> None,
     complete |-> None,
     temperament |-> Temperament_new,
     current_note_idx |-> 0,
     playing_reference |-> FALSE,
     disk |-> None]

quit(a) == [a EXCEPT !.should_quit = TRUE]

\* The match on mode_select.selected() of start_session / start_tuning.
selected_mode(a) == IF a.mode_select = "QuickTune" THEN "Quick" ELSE "Concert"

\* Mutant: the summary is built from an empty list.
finish_session_DropsNotes(a) ==
    [a EXCEPT !.complete = Some(CompleteScreen_new(<<>>)),
              !.session = None,
              !.state = "Complete"]

finish_session(a) ==
    [a EXCEPT !.complete =
                 Some(CompleteScreen_new(IF IsSome(a.session)
                                         THEN Unwrap(a.session).completed_notes
                                         ELSE <<>>)),
              !.session = None,
              !.state = "Complete"]

\* Mutant: the new screen inherits the unison step of the one it replaces.
setup_current_note_KeepsStep(a) ==
    IF a.current_note_idx >= NoteCount THEN finish_session(a)
    ELSE LET n == order_note_at(a.current_note_idx)
         IN IF IsSome(n)
            THEN [a EXCEPT !.tuning =
                     Some([TuningScreen_new(display_name(Unwrap(n)),
                                            a.current_note_idx,
                                            NoteCount,
                                            frequency(a.temperament, Unwrap(n).midi),
                                            Unwrap(n).strings)
                              EXCEPT !.tuning_step =
                                        IF IsSome(a.tuning)
                                        THEN Unwrap(a.tuning).tuning_step
                                        ELSE @])]
            ELSE a

setup_current_note(a) ==
    IF a.current_note_idx >= NoteCount THEN finish_session(a)
    ELSE LET n == order_note_at(a.current_note_idx)
         IN IF IsSome(n)
            THEN [a EXCEPT !.tuning =
                     Some(TuningScreen_new(display_name(Unwrap(n)),
                                           a.current_note_idx,
                                           NoteCount,
                                           frequency(a.temperament, Unwrap(n).midi),
                                           Unwrap(n).strings))]
            ELSE a

start_tuning(a) ==
    setup_current_note(
        [a EXCEPT !.session = Some(Session_new(selected_mode(a), a.temperament)),
                  !.current_note_idx = 0,
                  !.state = "Tuning"])

\* Mutant: Concert mode keeps the temperament of the previous session.
start_session_KeepsTemperament(a) ==
    IF selected_mode(a) = "Quick"
    THEN [a EXCEPT !.state = "Calibration",
                   !.calibration = CalibrationScreen_reset(@)]
    ELSE start_tuning(a)

start_session(a) ==
    IF selected_mode(a) = "Quick"
    THEN [a EXCEPT !.state = "Calibration",
                   !.calibration = CalibrationScreen_reset(@)]
    ELSE start_tuning([a EXCEPT !.temperament = Temperament_new])

\* ok: whether the session save made by this call succeeds.
advance_to_next_note(a, ok) ==
    LET a1 == [a EXCEPT !.current_note_idx = @ + 1, !.playing_reference = FALSE]
    IN IF a1.current_note_idx >= NoteCount THEN finish_session(a1)
       ELSE LET a2 == setup_current_note(a1)
            IN IF IsSome(a2.session)
               THEN Session_save(
                        [a2 EXCEPT !.session =
                            Some([Unwrap(@) EXCEPT
                                     !.current_note_index = a2.current_note_idx])],
                        ok)
               ELSE a2

\* The "record completion" block shared in shape by confirm_note and
\* skip_note: session.complete_note(note.display_name(), cents).
record_completion(a, cents) ==
    LET n == order_note_at(a.current_note_idx)
    IN IF IsSome(a.session) /\ IsSome(n)
       THEN [a EXCEPT !.session =
                Some(Session_complete_note(Unwrap(@), display_name(Unwrap(n)), cents))]
       ELSE a

\* Mutant: the completing confirm advances without recording the note.
confirm_note_AdvancesWithoutRecord(a, ok) ==
    IF IsSome(a.tuning)
    THEN LET t == Unwrap(a.tuning)
             ns == TuningScreen_next_step(t)
         IN IF TuningScreen_is_trichord(t) /\ ns.advanced
            THEN [a EXCEPT !.tuning = Some(ns.screen)]
            ELSE advance_to_next_note(a, ok)
    ELSE a

confirm_note(a, ok) ==
    IF IsSome(a.tuning)
    THEN LET t == Unwrap(a.tuning)
             ns == TuningScreen_next_step(t)
         IN IF TuningScreen_is_trichord(t) /\ ns.advanced
            THEN [a EXCEPT !.tuning = Some(ns.screen)]
            ELSE advance_to_next_note(record_completion(a, t.cents_deviation), ok)
    ELSE a

\* Mutant: the skip records the live deviation.
skip_note_RecordsLiveCents(a, ok) ==
    advance_to_next_note(
        record_completion(a, IF IsSome(a.tuning)
                             THEN Unwrap(a.tuning).cents_deviation ELSE 0),
        ok)

\* Mutant: the skip records the note and stays on it.
skip_note_StaysOnNote(a, ok) == record_completion(a, 0)

skip_note(a, ok) == advance_to_next_note(record_completion(a, 0), ok)

reset(a) ==
    [a EXCEPT !.state = "ModeSelect",
              !.session = None,
              !.tuning = None,
              !.complete = None,
              !.current_note_idx = 0,
              !.playing_reference = FALSE,
              !.mode_select = ModeSelectScreen_new,
              !.calibration = CalibrationScreen_new]

\* App::with_session: the app resumed from a loaded session s.
App_with_session(s) ==
    setup_current_note(
        [App_new EXCEPT !.current_note_idx = s.current_note_index,
                        !.temperament = Temperament_with_a4(s.a4_reference),
                        !.session = Some(s),
                        !.state = "Tuning"])

update_pitch(a, freq, confidence) ==
    CASE a.state = "Calibration" ->
            IF confidence > CalibrationGate
            THEN LET a1 == [a EXCEPT !.calibration = CalibrationScreen_update(@, freq)]
                 IN IF CalibrationScreen_is_complete(a1.calibration)
                    THEN LET r == CalibrationScreen_result(a1.calibration)
                         IN start_tuning(
                                IF IsSome(r)
                                THEN [a1 EXCEPT !.temperament =
                                                   Temperament_with_a4(Unwrap(r))]
                                ELSE a1)
                    ELSE a1
            ELSE a
      [] a.state = "Tuning" ->
            IF IsSome(a.tuning)
            THEN LET t == Unwrap(a.tuning)
                 IN IF confidence > TuningGate
                    THEN [a EXCEPT !.tuning =
                            Some(TuningScreen_update(
                                    t, freq, cents_from_target(freq, t.target_freq)))]
                    ELSE [a EXCEPT !.tuning = Some(TuningScreen_clear(t))]
            ELSE a
      [] OTHER -> a

\* Mutant: silence during tuning sets the current note up again.
clear_pitch_SetsNoteUpAgain(a) ==
    CASE a.state = "Calibration" ->
            [a EXCEPT !.calibration = CalibrationScreen_clear(@)]
      [] a.state = "Tuning" ->
            IF IsSome(a.tuning) THEN setup_current_note(a) ELSE a
      [] OTHER -> a

clear_pitch(a) ==
    CASE a.state = "Calibration" ->
            [a EXCEPT !.calibration = CalibrationScreen_clear(@)]
      [] a.state = "Tuning" ->
            IF IsSome(a.tuning)
            THEN [a EXCEPT !.tuning = Some(TuningScreen_clear(Unwrap(@)))]
            ELSE a
      [] OTHER -> a

\* Keys: "Tab" stands for Up | Down | Tab, "s" for s | S, "r" for r | R,
\* "q" for q | Q | Esc, "x" for any key no handler matches.
Keys == {"Tab", "Enter", "s", " ", "r", "q", "x"}

handle_mode_select_key(a, key) ==
    CASE key = "Tab" -> [a EXCEPT !.mode_select = ModeSelectScreen_next(@)]
      [] key = "Enter" -> start_session(a)
      [] key = "q" -> quit(a)
      [] OTHER -> a

\* Mutant: skipping calibration keeps the temperament in place.
handle_calibration_key_KeepsTemperament(a, key) ==
    CASE key = "s" -> start_tuning(a)
      [] key = "q" -> quit(a)
      [] OTHER -> a

handle_calibration_key(a, key) ==
    CASE key = "s" -> start_tuning([a EXCEPT !.temperament = Temperament_new])
      [] key = "q" -> quit(a)
      [] OTHER -> a

\* Mutant: quit propagates the save error and returns before quitting.
handle_tuning_key_PropagatesSaveError(a, key, ok) ==
    CASE key = " " -> confirm_note(a, ok)
      [] key = "r" -> [a EXCEPT !.playing_reference = ~@]
      [] key = "s" -> skip_note(a, ok)
      [] key = "q" -> IF ok THEN quit(Session_save(a, ok)) ELSE a
      [] OTHER -> a

handle_tuning_key(a, key, ok) ==
    CASE key = " " -> confirm_note(a, ok)
      [] key = "r" -> [a EXCEPT !.playing_reference = ~@]
      [] key = "s" -> skip_note(a, ok)
      [] key = "q" -> quit(Session_save(a, ok))
      [] OTHER -> a

handle_complete_key(a, key) ==
    CASE key = "Enter" -> reset(a)
      [] key = "q" -> quit(a)
      [] OTHER -> a

handle_key(a, key, ok) ==
    CASE a.state = "ModeSelect" -> handle_mode_select_key(a, key)
      [] a.state = "Calibration" -> handle_calibration_key(a, key)
      [] a.state = "Tuning" -> handle_tuning_key(a, key, ok)
      [] OTHER -> handle_complete_key(a, key)

\* ---------------------------------------------------------------------
\* The state: the fields of struct App, the persisted snapshot, and the
\* number of history-making off-nominal inputs taken so far.

VARIABLES state, session, should_quit, mode_select, calibration, tuning,
          complete, temperament, current_note_idx, playing_reference,
          disk, perturb

\* A pitch detector, the buffer handed to it and the outcome of detect.
VARIABLES detector, buffer, detection

\* A MIDI note number and the last call made with it on the note table,
\* the temperament or the stretch curve.
VARIABLES midi_note, call

\* An audio source, the caller's buffer as the last read_samples call left
\* it, the last operation with the count it returned, and the samples
\* handed out since the source was constructed or reset.
VARIABLES source, frame, returned, delivered

vars == <<state, session, should_quit, mode_select, calibration, tuning,
          complete, temperament, current_note_idx, playing_reference,
          disk, perturb, detector, buffer, detection, midi_note, call,
          source, frame, returned, delivered>>

appvars == <<state, session, should_quit, mode_select, calibration, tuning,
             complete, temperament, current_note_idx, playing_reference,
             disk, perturb>>

detvars == <<detector, buffer, detection>>

callvars == <<midi_note, call>>

srcvars == <<source, frame, returned, delivered>>

\* The current state as an app record, and the next state as one.
App ==
    [state |-> state, session |-> session, should_quit |-> should_quit,
     mode_select |-> mode_select, calibration |-> calibration,
     tuning |-> tuning, complete |-> complete, temperament |-> temperament,
     current_note_idx |-> current_note_idx,
     playing_reference |-> playing_reference, disk |-> disk]

Become(r) ==
    /\ state' = r.state
    /\ session' = r.session
    /\ should_quit' = r.should_quit
    /\ mode_select' = r.mode_select
    /\ calibration' = r.calibration
    /\ tuning' = r.tuning
    /\ complete' = r.complete
    /\ temperament' = r.temperament
    /\ current_note_idx' = r.current_note_idx
    /\ playing_reference' = r.playing_reference
    /\ disk' = r.disk

\* An off-nominal input is taken only while the budget lasts.
Charge(offnominal) ==
    /\ offnominal => perturb < MaxPerturb
    /\ perturb' = perturb + (IF offnominal THEN 1 ELSE 0)

\* Inputs.  Confidences straddle both gates; calibration samples lie on
\* and just outside the two ends of the A4 band; tuning detections are
\* 7 cents flat and 3 cents sharp of the current target.
Confidences == {50, 60, 70, 80, 90}
CalibrationFreqs == {39900, 40000, 48000, 48100}
PitchPermille == {996, 1002}

\* Calibration samples that count against the budget when accepted; they
\* are offered as the first sample of a calibration only.
ChargedSamples == {48000}

\* Notes of the tuning order on which the off-plain inputs of the tuning
\* phase arrive (above-gate detections, the reference-tone key, failing
\* writes): the first note (1 string), the first 3-string note and the
\* last note.  On the other notes the audio loop only delivers detections
\* at or below the tuning gate and every write succeeds.
ProbeNotes == {0, 36, 87}

OnProbeNote == state = "Tuning" /\ current_note_idx \in ProbeNotes

\* The frequencies a detection can carry in the current state: around A4
\* during calibration, around the current target during tuning.
DetectedFreqs ==
    IF state = "Tuning" /\ IsSome(tuning)
    THEN {(Unwrap(tuning).target_freq * p) \div 1000 : p \in PitchPermille}
    ELSE IF state = "Calibration" /\ calibration.samples # <<>>
    THEN CalibrationFreqs \ ChargedSamples
    ELSE CalibrationFreqs

DetectedConfidences ==
    IF state = "Tuning" /\ ~OnProbeNote
    THEN {c \in Confidences : c <= TuningGate}
    ELSE Confidences

TuningKeys == IF OnProbeNote THEN Keys ELSE Keys \ {"r"}

WriteOutcomes == IF OnProbeNote THEN BOOLEAN ELSE {TRUE}

SampleRate == 44100

\* No detector call and no table call has been made.
DetectorIdle ==
    /\ detector = PitchDetector_new(SampleRate)
    /\ buffer = <<>>
    /\ detection = [done |-> FALSE, analysed |-> FALSE, result |-> None]

NoCall == midi_note = 0 /\ call = [op |-> "none", ret |-> None]

\* An empty in-memory source nobody has read from.
SourceIdle ==
    /\ source = TestAudioSource_new(<<>>)
    /\ frame = <<>>
    /\ returned = [op |-> "new", count |-> 0]
    /\ delivered = <<>>

\* App::new(), nothing persisted yet.
AppFresh ==
    /\ state = App_new.state
    /\ session = App_new.session
    /\ should_quit = App_new.should_quit
    /\ mode_select = App_new.mode_select
    /\ calibration = App_new.calibration
    /\ tuning = App_new.tuning
    /\ complete = App_new.complete
    /\ temperament = App_new.temperament
    /\ current_note_idx = App_new.current_note_idx
    /\ playing_reference = App_new.playing_reference
    /\ disk = App_new.disk
    /\ perturb = 0

\* The snapshot the app leaves on disk when a session of the given mode
\* and reference is interrupted at note index: one record per earlier
\* note, here all skipped.
Snapshot(mode, a4_reference, index) ==
    [mode |-> mode, a4_reference |-> a4_reference,
     current_note_index |-> index,
     completed_notes |->
        [k \in 1..index |->
            [note_name |-> display_name(Unwrap(order_note_at(k - 1))),
             final_cents |-> 0]]]

\* Sessions offered to App::with_session: a Quick session calibrated to
\* 435 Hz and interrupted at the first 3-string note, and a Concert
\* session interrupted at the last 2-string note.
ResumedSessions ==
    {Snapshot("Quick", 43500, 36), Snapshot("Concert", DefaultA4, 35)}

\* App::with_session(s) on a snapshot found on disk.  A resumed run takes
\* no further off-nominal input.
AppResumed ==
    \E s \in ResumedSessions :
       LET r == App_with_session(s)
       IN /\ state = r.state
          /\ session = r.session
          /\ should_quit = r.should_quit
          /\ mode_select = r.mode_select
          /\ calibration = r.calibration
          /\ tuning = r.tuning
          /\ complete = r.complete
          /\ temperament = r.temperament
          /\ current_note_idx = r.current_note_idx
          /\ playing_reference = r.playing_reference
          /\ disk = Some(s)
          /\ perturb = MaxPerturb

Init == (AppFresh \/ AppResumed) /\ DetectorIdle /\ NoCall /\ SourceIdle

\* The control loop runs handlers until should_quit() is set.
Running == ~should_quit

\* A key press reaching App::handle_key in each of the four states.
HandleModeSelectKey ==
    /\ UNCHANGED <<detvars, callvars, srcvars>>
    /\ Running /\ state = "ModeSelect"
    /\ \E key \in Keys : Become(handle_key(App, key, TRUE))
    /\ UNCHANGED perturb

\* Leaving calibration with samples already collected is off-nominal.
HandleCalibrationKey ==
    /\ UNCHANGED <<detvars, callvars, srcvars>>
    /\ Running /\ state = "Calibration"
    /\ \E key \in Keys :
          LET r == handle_key(App, key, TRUE)
          IN /\ Become(r)
             /\ Charge(r.state # "Calibration" /\ calibration.samples # <<>>)

\* In Tuning a key may save the session; the write succeeds or fails, and
\* a failure that leaves the disk behind is off-nominal.
HandleTuningKey ==
    /\ UNCHANGED <<detvars, callvars, srcvars>>
    /\ Running /\ state = "Tuning"
    /\ \E key \in TuningKeys, ok \in WriteOutcomes :
          LET r == handle_key(App, key, ok)
          IN /\ Become(r)
             /\ Charge(~ok /\ r.disk # handle_key(App, key, TRUE).disk)

\* Starting another session from the summary is off-nominal.
HandleCompleteKey ==
    /\ UNCHANGED <<detvars, callvars, srcvars>>
    /\ Running /\ state = "Complete"
    /\ \E key \in Keys :
          LET r == handle_key(App, key, TRUE)
          IN /\ Become(r)
             /\ Charge(r.state # "Complete")

\* The audio loop delivers a detection (App::update_pitch).
UpdatePitch ==
    /\ UNCHANGED <<detvars, callvars, srcvars>>
    /\ Running
    /\ \E freq \in DetectedFreqs, confidence \in DetectedConfidences :
          LET r == update_pitch(App, freq, confidence)
          IN /\ Become(r)
             /\ Charge(\/ /\ state = "Calibration"
                          /\ r.calibration.samples # calibration.samples
                          /\ freq \in ChargedSamples
                       \/ /\ state = "Tuning"
                          /\ IsSome(r.tuning)
                          /\ IsSome(Unwrap(r.tuning).detected_freq))

\* The audio loop reports silence (App::clear_pitch).
ClearPitch ==
    /\ UNCHANGED <<detvars, callvars, srcvars>>
    /\ Running
    /\ Become(clear_pitch(App))
    /\ UNCHANGED perturb

Next ==
    \/ HandleModeSelectKey
    \/ HandleCalibrationKey
    \/ HandleTuningKey
    \/ HandleCompleteKey
    \/ UpdatePitch
    \/ ClearPitch

Spec == Init /\ [][Next]_vars

\* What a skip press does to the index (skip_note, then
\* advance_to_next_note): while the app runs in Tuning, the index moves
\* one on.
AdvanceNote ==
    /\ Running /\ state = "Tuning"
    /\ current_note_idx' = current_note_idx + 1

\* The app with a user who does not stay on a note for ever: a session
\* that remains in Tuning while the app runs eventually sees a step that
\* moves the index on.  The skip key is available in every such state and
\* each press of it is such a step, so a user who keeps pressing skip
\* provides this.
FairSpec == Spec /\ WF_current_note_idx(AdvanceNote)

\* ---------------------------------------------------------------------
\* The pitch detector on its own: a detector is configured with the
\* builder methods and detect is applied to a buffer.

\* Longest buffer handed to detect.
MaxBuf == 10

SampleValues == {0, 1}

Buffers == UNION {[1..n -> SampleValues] : n \in 0..MaxBuf}

\* Thresholds given to with_threshold: 0.01, 0.5 and 1.5.
Thresholds == {10, 500, 1500}

\* <<min, max>> pairs given to with_frequency_range, in centi-Hz: lag
\* ranges 2..4, 1..4 and 0..2 at 44.1 kHz, a range whose upper lag is
\* always clipped to half the buffer, and two ranges with min >= max.
FrequencyRanges ==
    {<<1102500, 2205000>>, <<1000000, 4410000>>, <<1500000, 5000000>>,
     <<2750, 2205000>>, <<2205000, 2205000>>, <<4410000, 2205000>>}

DetectInit ==
    /\ AppFresh /\ NoCall /\ SourceIdle
    /\ detector = PitchDetector_new(SampleRate)
    /\ buffer \in Buffers
    /\ detection = [done |-> FALSE, analysed |-> FALSE, result |-> None]

WithThreshold ==
    /\ ~detection.done
    /\ \E threshold \in Thresholds :
          detector' = with_threshold(detector, threshold)
    /\ UNCHANGED <<appvars, callvars, srcvars, buffer, detection>>

WithFrequencyRange ==
    /\ ~detection.done
    /\ \E range \in FrequencyRanges :
          detector' = with_frequency_range(detector, range[1], range[2])
    /\ UNCHANGED <<appvars, callvars, srcvars, buffer, detection>>

Detect ==
    /\ ~detection.done
    /\ detection' = [done |-> TRUE,
                     analysed |-> ~detect_rejects(detector, buffer),
                     result |-> detect(detector, buffer)]
    /\ UNCHANGED <<appvars, callvars, srcvars, detector, buffer>>

DetectNext == WithThreshold \/ WithFrequencyRange \/ Detect

DetectSpec == DetectInit /\ [][DetectNext]_vars

\* ---------------------------------------------------------------------
\* The note table, the temperament and the stretch curve on their own:
\* one call at a time is made with a MIDI note number.

U8Max == 255

\* Highest note number handed to Temperament::frequency.
MaxFrequencyMidi == 127

\* A4 references given to Temperament::with_a4 (415, 440 and 442 Hz).
A4References == {41500, 44000, 44200}

CallInit ==
    /\ AppFresh /\ DetectorIdle /\ SourceIdle
    /\ midi_note \in 0..U8Max
    /\ call = [op |-> "none", ret |-> None]

\* The temperament is constructed before any call is made.
WithA4 ==
    /\ call.op = "none"
    /\ \E a4 \in A4References : temperament' = Temperament_with_a4(a4)
    /\ UNCHANGED <<state, session, should_quit, mode_select, calibration,
                   tuning, complete, current_note_idx, playing_reference,
                   disk, perturb, detvars, callvars, srcvars>>

\* The record of a call: the operation and the value it returned.
Returned(op, value) == [op |-> op, ret |-> Some(value)]

CallFromMidi ==
    /\ call' = Returned("from_midi", Note_from_midi(midi_note))
    /\ UNCHANGED <<appvars, detvars, srcvars, midi_note>>

CallOffsetCents ==
    /\ call' = Returned("offset_cents", offset_cents(midi_note))
    /\ UNCHANGED <<appvars, detvars, srcvars, midi_note>>

CallFrequency ==
    /\ midi_note <= MaxFrequencyMidi
    /\ call' = Returned("frequency", frequency_fine(temperament, midi_note))
    /\ UNCHANGED <<appvars, detvars, srcvars, midi_note>>

CallApply ==
    /\ midi_note <= MaxFrequencyMidi
    /\ call' = Returned("apply",
                        StretchCurve_apply(frequency(temperament, midi_note),
                                           midi_note))
    /\ UNCHANGED <<appvars, detvars, srcvars, midi_note>>

CallNext ==
    \/ WithA4
    \/ CallFromMidi
    \/ CallOffsetCents
    \/ CallFrequency
    \/ CallApply

CallSpec == CallInit /\ [][CallNext]_vars

\* ---------------------------------------------------------------------
\* The audio sources on their own: a source is constructed over some
\* samples and a caller pulls from it with buffers of its choice.

\* Longest sample vector given to TestAudioSource::new.
MaxSamples == 4

\* Longest buffer handed to read_samples.
MaxFrame == 3

\* Longest WAV file, in samples.
MaxWavData == 2

TestSampleValues == {1, 2}

TestSamples == UNION {[1..n -> TestSampleValues] : n \in 0..MaxSamples}

\* The bit depths hound reads as integers.
BitDepths == {8, 16, 24, 32}

\* Both ends of the sample range of a bit depth, and the values around 0.
IntSamples(bits) ==
    IF bits = 32 THEN {I32Min, 0 - 1, 0, 1, I32Max}
    ELSE {0 - Pow2(bits - 1), 0 - 1, 0, 1, Pow2(bits - 1) - 1}

\* Float samples of a WAV file: -1.0, 0.5 and 1.0.
FloatSamples == {Quotient(0 - 1, 1), Quotient(1, 2), Quotient(1, 1)}

SeqsUpTo(S, n) == UNION {[1..k -> S] : k \in 0..n}

WavFiles ==
    UNION {{WavAudioSource_new("Int", bits, data) :
               data \in SeqsUpTo(IntSamples(bits), MaxWavData)} :
           bits \in BitDepths}
    \cup {WavAudioSource_new("Float", 32, data) :
             data \in SeqsUpTo(FloatSamples, MaxWavData)}

\* The buffers a caller hands in: a zeroed one of any length, or the one
\* the last call filled.
CallerBuffers(zero) ==
    {[k \in 1..n |-> zero] : n \in 0..MaxFrame} \cup {frame}

SourceInit ==
    /\ AppFresh /\ DetectorIdle /\ NoCall
    /\ source \in {TestAudioSource_new(samples) : samples \in TestSamples}
                     \cup WavFiles
    /\ frame = <<>>
    /\ returned = [op |-> "new", count |-> 0]
    /\ delivered = <<>>

TestReadSamples ==
    /\ source.kind = "test"
    /\ \E buf \in CallerBuffers(0) :
          LET r == TestAudioSource_read_samples(source, buf)
          IN /\ source' = r.source
             /\ frame' = r.buffer
             /\ returned' = [op |-> "read", count |-> r.count]
             /\ delivered' = delivered \o SubSeq(r.buffer, 1, r.count)
    /\ UNCHANGED <<appvars, detvars, callvars>>

Reset ==
    /\ source.kind = "test"
    /\ source' = TestAudioSource_reset(source)
    /\ returned' = [op |-> "reset", count |-> 0]
    /\ delivered' = <<>>
    /\ UNCHANGED <<appvars, detvars, callvars, frame>>

WavReadSamples ==
    /\ source.kind = "wav"
    /\ \E buf \in CallerBuffers(Quotient(0, 1)) :
          LET r == WavAudioSource_read_samples(source, buf)
          IN /\ source' = r.source
             /\ frame' = r.buffer
             /\ returned' = [op |-> "read", count |-> r.count]
             /\ delivered' = delivered \o SubSeq(r.buffer, 1, r.count)
    /\ UNCHANGED <<appvars, detvars, callvars>>

SourceNext == TestReadSamples \/ Reset \/ WavReadSamples

SourceSpec == SourceInit /\ [][SourceNext]_vars

\* ---------------------------------------------------------------------
\* Properties.

\* The CompletedNote records of an app record: the session's while it
\* lives, the summary's once the session has been converted.
Recorded(a) ==
    IF IsSome(a.session) THEN Unwrap(a.session).completed_notes
    ELSE IF IsSome(a.complete) THEN Unwrap(a.complete).completed_notes
    ELSE <<>>

\* The in-memory part of an app record (everything but the disk).
InMemory(a) == [a EXCEPT !.disk = None]

\* The current note is at its terminal unison step.
AtTerminalStep ==
    /\ state = "Tuning" /\ IsSome(tuning)
    /\ IF Unwrap(tuning).string_count = 3
       THEN Unwrap(tuning).tuning_step = "TuneRight"
       ELSE Unwrap(tuning).tuning_step = "None"

\* A pitch is detected and the live deviation is within 5 cents.
LiveInTolerance ==
    /\ IsSome(tuning)
    /\ IsSome(Unwrap(tuning).detected_freq)
    /\ Abs(Unwrap(tuning).cents_deviation) <= 5

\* C1: in Tuning, a confirm at the terminal unison step made while no
\* pitch is detected or the deviation exceeds 5 cents appends no
\* CompletedNote and leaves the index unchanged.
C1_CompletionGate ==
    (AtTerminalStep /\ ~LiveInTolerance) =>
        \A ok \in BOOLEAN :
            LET r == handle_key(App, " ", ok)
            IN /\ Recorded(r) = Recorded(App)
               /\ r.current_note_idx = current_note_idx

\* C2: on a 3-string note a confirm moves MuteOuter -> TuneCenter ->
\* TuneLeft -> TuneRight one step at a time without recording or advancing,
\* and the confirm at TuneRight made with a live detection within 5 cents
\* appends exactly one CompletedNote and increments the index by one.
C2_UnisonSequence ==
    (state = "Tuning" /\ IsSome(tuning) /\ Unwrap(tuning).string_count = 3) =>
        \A ok \in BOOLEAN :
            LET r == handle_key(App, " ", ok)
                step == Unwrap(tuning).tuning_step
                held == /\ r.state = "Tuning"
                        /\ Recorded(r) = Recorded(App)
                        /\ r.current_note_idx = current_note_idx
            IN /\ step \in {"MuteOuter", "TuneCenter", "TuneLeft", "TuneRight"}
               /\ step = "MuteOuter" =>
                     held /\ Unwrap(r.tuning).tuning_step = "TuneCenter"
               /\ step = "TuneCenter" =>
                     held /\ Unwrap(r.tuning).tuning_step = "TuneLeft"
               /\ step = "TuneLeft" =>
                     held /\ Unwrap(r.tuning).tuning_step = "TuneRight"
               /\ (step = "TuneRight" /\ LiveInTolerance) =>
                     /\ Len(Recorded(r)) = Len(Recorded(App)) + 1
                     /\ SubSeq(Recorded(r), 1, Len(Recorded(App))) = Recorded(App)
                     /\ r.current_note_idx = current_note_idx + 1

\* The first 3-string note (A3, index 36) has been recorded with the live
\* in-tolerance deviation of its fourth confirm and the next note begins.
C2_Witness ==
    /\ state = "Tuning" /\ current_note_idx = 37
    /\ Len(Recorded(App)) = 37
    /\ Recorded(App)[37] = [note_name |-> <<"A", 3>>, final_cents |-> 3]
    /\ Unwrap(tuning).tuning_step = "MuteOuter"

\* C3: in Tuning, a skip on any note, at any unison sub-step and with any
\* live pitch state, appends exactly one CompletedNote carrying the current
\* note's name and 0 cents, and advances the index by exactly one.
C3_SkipRecordsZero ==
    (state = "Tuning" /\ IsSome(tuning)) =>
        \A ok \in BOOLEAN :
            LET r == handle_key(App, "s", ok)
            IN /\ Recorded(r) =
                    Append(Recorded(App),
                           [note_name |-> Unwrap(tuning).note_name,
                            final_cents |-> 0])
               /\ r.current_note_idx = current_note_idx + 1

\* A session in which the first note was confirmed 7 cents flat has ended;
\* its first 3-string note (A3) and its last note (C8) carry 0 cents.
C3_Witness ==
    /\ state = "Complete"
    /\ Len(Recorded(App)) = 88
    /\ Recorded(App)[88] = [note_name |-> <<"C", 8>>, final_cents |-> 0]
    /\ Recorded(App)[37] = [note_name |-> <<"A", 3>>, final_cents |-> 0]
    /\ Recorded(App)[1] = [note_name |-> <<"A", 0>>, final_cents |-> 0 - 7]

\* s is an initial segment of t.
IsPrefix(s, t) == Len(s) <= Len(t) /\ SubSeq(t, 1, Len(s)) = s

\* C4: the app is in Complete exactly when the index has reached 88, a key
\* leads from Tuning to Complete only on the last note, audio events never
\* do; records are only ever appended, and the summary holds every record
\* of the session in recording order: 88 of them, the k-th for the k-th
\* note of the order.
C4_CompleteAtEightyEight ==
    /\ state = "Tuning" => current_note_idx < 88 /\ IsSome(session)
    /\ state = "Complete" =>
          /\ current_note_idx = 88
          /\ session = None /\ IsSome(complete)
          /\ Len(Unwrap(complete).completed_notes) = 88
          /\ \A k \in 1..88 :
                Unwrap(complete).completed_notes[k].note_name =
                    display_name(Unwrap(order_note_at(k - 1)))
    /\ state = "Tuning" =>
          /\ \A key \in Keys, ok \in BOOLEAN :
                LET r == handle_key(App, key, ok)
                IN /\ r.state \in {"Tuning", "Complete"}
                   /\ r.state = "Complete" <=> r.current_note_idx = 88
                   /\ IsPrefix(Recorded(App), Recorded(r))
                   /\ Len(Recorded(r)) = r.current_note_idx
          /\ clear_pitch(App).state = "Tuning"
          /\ \A f \in DetectedFreqs, c \in Confidences :
                update_pitch(App, f, c).state = "Tuning"

\* A session has ended whose last note was confirmed 3 cents sharp; the
\* summary holds the 88 records.
C4_Witness ==
    /\ state = "Complete" /\ current_note_idx = 88
    /\ Len(Unwrap(complete).completed_notes) = 88
    /\ Unwrap(complete).completed_notes[88] =
          [note_name |-> <<"C", 8>>, final_cents |-> 3]

\* C5: once the index has advanced, and as long as no off-nominal input
\* (such as a failed write) has occurred, the persisted snapshot carries the
\* current index and the A4 reference, also after the advance past the
\* last note.
C5_SnapshotFollowsAdvance ==
    (perturb = 0 /\ state \in {"Tuning", "Complete"} /\ current_note_idx >= 1) =>
        /\ IsSome(disk)
        /\ Unwrap(disk).current_note_index = current_note_idx
        /\ Unwrap(disk).a4_reference = temperament

\* C6: in Tuning, a confirm, skip or quit leaves the same in-memory state
\* whether its session save succeeds or fails; after a failed save the
\* confirm and the skip leave the app running and the quit quits.
C6_SaveFailureSwallowed ==
    (state = "Tuning" /\ Running) =>
        \A key \in {" ", "s", "q"} :
            LET saved == handle_key(App, key, TRUE)
                failed == handle_key(App, key, FALSE)
            IN /\ InMemory(failed) = InMemory(saved)
               /\ key # "q" =>
                     ~failed.should_quit /\ failed.state \in {"Tuning", "Complete"}
               /\ key = "q" => failed.should_quit /\ failed.state = "Tuning"

\* The save of the first advance failed: nothing is on disk, the in-memory
\* session is at the second note and the app keeps running.
C6_Witness ==
    /\ state = "Tuning" /\ current_note_idx = 1
    /\ disk = None
    /\ Unwrap(session).current_note_index = 1
    /\ Len(Unwrap(session).completed_notes) = 1
    /\ ~should_quit

\* C7: from mode selection Enter leads, in Concert mode, straight to Tuning
\* at index 0 with a session and temperament of A4 = 440 and, in Quick mode,
\* to Calibration; Calibration is only ever entered in Quick mode and left
\* for Tuning only by the skip key or by the sample that completes the
\* calibration; a Concert session never holds calibration samples.
C7_ModeRouting ==
    /\ state = "ModeSelect" =>
          LET r == handle_key(App, "Enter", TRUE)
          IN IF mode_select = "ConcertPitch"
             THEN /\ r.state = "Tuning"
                  /\ r.current_note_idx = 0
                  /\ r.temperament = 44000
                  /\ Unwrap(r.session).a4_reference = 44000
                  /\ Unwrap(r.session).mode = "Concert"
             ELSE r.state = "Calibration" /\ r.session = None
    /\ state = "Calibration" =>
          /\ mode_select = "QuickTune"
          /\ handle_key(App, "s", TRUE).state = "Tuning"
          /\ \A key \in Keys \ {"s"} : handle_key(App, key, TRUE).state = "Calibration"
          /\ clear_pitch(App).state = "Calibration"
          /\ \A f \in CalibrationFreqs, c \in Confidences :
                LET r == update_pitch(App, f, c)
                IN /\ r.state \in {"Calibration", "Tuning"}
                   /\ r.state = "Tuning" <=>
                         (Len(r.calibration.samples) = 10
                            /\ Len(calibration.samples) = 9)
    /\ (state = "Tuning" /\ Unwrap(session).mode = "Concert") =>
          /\ Unwrap(session).a4_reference = 44000
          /\ temperament = 44000
          /\ calibration.samples = <<>>

\* A Concert session at 440 Hz is under way after an earlier Quick session
\* calibrated to 400 Hz was completed and reset.
C7_Witness ==
    /\ state = "Tuning" /\ current_note_idx = 0
    /\ Unwrap(session).mode = "Concert"
    /\ Unwrap(session).a4_reference = 44000
    /\ IsSome(disk)
    /\ Unwrap(disk).mode = "Quick"
    /\ Unwrap(disk).a4_reference = 40000

\* The frequency lies in the calibrator's A4 band, 400 to 480 Hz inclusive.
InBand(f) == f >= 40000 /\ f <= 48000

\* C8: the detection that completes the calibration enters Tuning at index
\* 0 with the temperament and the session's A4 reference set to the mean of
\* the ten accepted samples (those held before plus the completing one);
\* in every Tuning state the target is the temperament frequency of the
\* current note under the session's A4 reference.
C8_CalibratedReference ==
    /\ state = "Calibration" =>
          \A f \in CalibrationFreqs, c \in Confidences :
              LET r == update_pitch(App, f, c)
                  smp == r.calibration.samples
              IN r.state = "Tuning" =>
                    /\ smp = Append(calibration.samples, f)
                    /\ Len(smp) = 10
                    /\ \A k \in 1..Len(smp) : InBand(smp[k])
                    /\ r.temperament = SumSeq(smp) \div 10
                    /\ Unwrap(r.session).a4_reference = SumSeq(smp) \div 10
                    /\ r.current_note_idx = 0
                    /\ Unwrap(r.tuning).target_freq =
                          frequency(SumSeq(smp) \div 10,
                                    Unwrap(order_note_at(0)).midi)
    /\ state = "Tuning" =>
          /\ temperament = Unwrap(session).a4_reference
          /\ Unwrap(tuning).target_freq =
                frequency(Unwrap(session).a4_reference,
                          Unwrap(order_note_at(current_note_idx)).midi)

\* A calibration of nine samples of 400 Hz and one of 480 Hz has completed:
\* the session tunes the second note against A4 = 408 Hz.
C8_Witness ==
    /\ state = "Tuning" /\ current_note_idx = 1
    /\ Unwrap(session).mode = "Quick"
    /\ Len(calibration.samples) = 10
    /\ temperament = 40800
    /\ Unwrap(session).a4_reference = 40800
    /\ Unwrap(tuning).target_freq = frequency(40800, 22)

\* C9: in every state of the calibration phase fewer than 10 samples are
\* held, all inside the band, and is_complete is false; a sample outside
\* 400-480 Hz leaves the calibrator unchanged, a sample inside the band
\* (ends included) is appended, and is_complete becomes true exactly with
\* the 10th accepted sample.
C9_CalibratorBand ==
    /\ \A k \in 1..Len(calibration.samples) : InBand(calibration.samples[k])
    /\ state = "Calibration" =>
          /\ Len(calibration.samples) < 10
          /\ ~CalibrationScreen_is_complete(calibration)
          /\ \A f \in CalibrationFreqs :
                LET c2 == CalibrationScreen_update(calibration, f)
                IN /\ ~InBand(f) => c2 = calibration
                   /\ InBand(f) => c2.samples = Append(calibration.samples, f)
                   /\ CalibrationScreen_is_complete(c2) <=>
                         (InBand(f) /\ Len(calibration.samples) = 9)

\* Nine samples are held, both ends of the band among them, and the phase
\* is still running.
C9_Witness ==
    /\ state = "Calibration"
    /\ Len(calibration.samples) = 9
    /\ calibration.samples[1] = 48000
    /\ calibration.samples[9] = 40000

\* C10: in Calibration and in Tuning, update_pitch with a confidence below
\* the gate of that state produces the state clear_pitch produces.
C10_BelowGateIsSilence ==
    (state \in {"Calibration", "Tuning"}) =>
        \A f \in DetectedFreqs, c \in Confidences :
            c < (IF state = "Calibration" THEN 80 ELSE 60) =>
                update_pitch(App, f, c) = clear_pitch(App)

\* C11: a detection at or above the gate of the current state, the gate
\* value itself included, is taken: in Calibration (gate 0.8) an in-band
\* frequency is appended to the calibrator's samples, in Tuning (gate 0.6)
\* the live frequency and the cents deviation are set from it.
C11_InclusiveGates ==
    /\ state = "Calibration" =>
          \A f \in CalibrationFreqs, c \in Confidences :
              (c >= 80 /\ InBand(f)) =>
                  update_pitch(App, f, c).calibration.samples =
                      Append(calibration.samples, f)
    /\ (state = "Tuning" /\ IsSome(tuning)) =>
          \A f \in DetectedFreqs, c \in Confidences :
              c >= 60 =>
                  LET t == Unwrap(update_pitch(App, f, c).tuning)
                  IN /\ t.detected_freq = Some(f)
                     /\ t.cents_deviation =
                           cents_from_target(f, Unwrap(tuning).target_freq)

\* C12: in every Tuning state the target of the current note is the
\* equal-temperament frequency of the note with the stretch offset of the
\* note applied.
C12_StretchedTarget ==
    (state = "Tuning" /\ IsSome(tuning)) =>
        LET midi == Unwrap(order_note_at(current_note_idx)).midi
        IN Unwrap(tuning).target_freq =
              StretchCurve_apply(frequency(temperament, midi), midi)

\* Every sample of the buffer is zero.
Silent == \A k \in 1..Len(buffer) : buffer[k] = 0

\* C13: detect on a buffer of all-zero samples returns no detection, for
\* every buffer length and every configuration of the detector.
C13_SilenceNoDetection == Silent => detect(detector, buffer) = None

\* C14: with tau_min = floor(sample_rate / max_frequency) and
\* tau_max = floor(min(sample_rate / min_frequency, len / 2)), detect
\* rejects the input before analysis exactly when len < 2 or
\* tau_max <= tau_min or tau_max > len / 2; a buffer whose tau_max equals
\* len / 2 is analysed.
C14_RejectionRule ==
    LET len == Len(buffer)
        tau_min == (detector.sample_rate * 100) \div detector.max_frequency
        by_rate == (detector.sample_rate * 100) \div detector.min_frequency
        tau_max == IF by_rate < len \div 2 THEN by_rate ELSE len \div 2
    IN /\ detect_rejects(detector, buffer) <=>
             (len < 2 \/ tau_max <= tau_min \/ tau_max > len \div 2)
       /\ detection.done =>
             (detection.analysed <=>
                 ~(len < 2 \/ tau_max <= tau_min \/ tau_max > len \div 2))

\* C15: a detector configured with min_frequency >= max_frequency rejects
\* every buffer before any sample or lag is indexed, and detect returns no
\* detection.
C15_CollapsedRange ==
    (detector.min_frequency >= detector.max_frequency) =>
        /\ detect_rejects(detector, buffer)
        /\ detect(detector, buffer) = None
        /\ detection.done => (~detection.analysed /\ detection.result = None)

\* detect has returned no detection for a buffer of at least 8 samples
\* that is not silent, under a range with min_frequency > max_frequency.
C15_Witness ==
    /\ detection.done /\ detection.result = None
    /\ detector.min_frequency > detector.max_frequency
    /\ Len(buffer) >= 8 /\ ~Silent

\* C16: every PitchResult returned by detect has a confidence in [0, 1]
\* equal to 1 - min(d'(tau), 1) for the chosen lag tau, and a frequency
\* that is finite and greater than 0.
C16_ResultWellFormed ==
    LET r == detect(detector, buffer)
    IN IsSome(r) =>
          LET tau_max == tau_max_of(detector, Len(buffer))
              cmnd == cumulative_mean_normalized_difference(
                          difference_function(buffer, tau_max), tau_max)
              tau == Unwrap(chosen_lag(detector, buffer))
              at_tau == IF cmnd[tau] < 1000 THEN cmnd[tau] ELSE 1000
          IN /\ Unwrap(r).confidence >= 0 /\ Unwrap(r).confidence <= 1000
             /\ Unwrap(r).confidence = 1000 - at_tau
             /\ Unwrap(r).finite
             /\ Unwrap(r).frequency > 0

\* C17: the stretch offsets are non-decreasing over the keyboard
\* (offset_cents(m) <= offset_cents(m + 1) for m in 21..107), negative
\* below the center key and positive above it.
C17_StretchMonotonic ==
    /\ (midi_note >= 21 /\ midi_note <= 107) =>
          offset_cents(midi_note) <= offset_cents(midi_note + 1)
    /\ (midi_note >= 21 /\ midi_note < 60) => offset_cents(midi_note) < 0
    /\ (midi_note > 60 /\ midi_note <= 108) => offset_cents(midi_note) > 0
    /\ call.op = "offset_cents" => Unwrap(call.ret) = offset_cents(midi_note)

\* offset_cents has returned the offset of A0 (MIDI 21), between -25 and
\* -10 cents and below the offset of the next key.
C17_Witness ==
    /\ midi_note = 21 /\ call.op = "offset_cents"
    /\ Unwrap(call.ret) < 0 - 10000 /\ Unwrap(call.ret) > 0 - 25000
    /\ Unwrap(call.ret) < offset_cents(22)

\* 20 * |x|^2 * x cents with x = (midi - 60) / 44, in milli-cents.
Cubic(midi) ==
    LET x == midi - 60
        a == IF x < 0 THEN 0 - x ELSE x
    IN (IF x < 0 THEN 0 - 1 ELSE 1) * ((10000 * a * a * a) \div 42592)

\* C18: offset_cents(midi) is 0 for every midi outside 21..108 and, inside
\* that range, the cubic 20 * |x|^2 * x cents with x = (midi - 60) / 44
\* (to within a milli-cent).
C18_StretchCubic ==
    /\ (midi_note < 21 \/ midi_note > 108) => offset_cents(midi_note) = 0
    /\ (midi_note >= 21 /\ midi_note <= 108) =>
          Abs(offset_cents(midi_note) - Cubic(midi_note)) <= 1

\* C19: for the configured A4, frequency(69) is that A4 exactly and, for
\* every n in 21..96, frequency(n + 12) / frequency(n) is 2 within 1e-4.
C19_OctaveDoubling ==
    /\ frequency_fine(temperament, 69) = temperament * Pow2(6)
    /\ frequency(temperament, 69) = temperament
    /\ (midi_note >= 21 /\ midi_note <= 96) =>
          LET lower == frequency_fine(temperament, midi_note)
              higher == frequency_fine(temperament, midi_note + 12)
          IN /\ lower > 0
             /\ Abs(higher - 2 * lower) <= lower \div 10000
    /\ call.op = "frequency" =>
          Unwrap(call.ret) = frequency_fine(temperament, midi_note)

\* frequency has returned 884 Hz for A5 (MIDI 81) under A4 = 442 Hz.
C19_Witness ==
    /\ temperament = 44200 /\ midi_note = 81 /\ call.op = "frequency"
    /\ Unwrap(call.ret) = 88400 * 64

\* C20: the note table has 88 entries, entry i with MIDI i + 21, with 1
\* string up to MIDI 34, 2 strings for MIDI 35 to 56 and 3 strings from
\* MIDI 57; from_midi returns the entry of every MIDI in 21..108 and
\* nothing outside.
C20_NoteTable ==
    /\ Len(NOTES) = 88
    /\ \A i \in 0..87 :
          /\ NOTES[i + 1].midi = i + 21
          /\ NOTES[i + 1].strings =
                (IF i + 21 <= 34 THEN 1 ELSE IF i + 21 <= 56 THEN 2 ELSE 3)
    /\ \A i \in 0..86 : NOTES[i + 1].midi < NOTES[i + 2].midi
    /\ IF midi_note >= 21 /\ midi_note <= 108
       THEN /\ Note_from_midi(midi_note) = Some(NOTES[midi_note - 20])
            /\ Unwrap(Note_from_midi(midi_note)).midi = midi_note
       ELSE Note_from_midi(midi_note) = None
    /\ call.op = "from_midi" => Unwrap(call.ret) = Note_from_midi(midi_note)

\* from_midi has returned the last single-string key, A#1 (MIDI 34).
C20_Witness ==
    /\ midi_note = 34 /\ call.op = "from_midi"
    /\ Unwrap(call.ret) =
          Some([midi |-> 34, name |-> "A#", octave |-> 1, strings |-> 1])

\* C21: successive read_samples calls on the in-memory source hand out
\* consecutive, non-overlapping chunks in order: what has been delivered
\* since construction or the last reset is the prefix of the samples up
\* to the read position, which never exceeds the sample count; a call
\* returns min(buffer length, samples remaining) and copies that many;
\* a call after exhaustion returns 0; after reset() the next read starts
\* from the first sample.
C21_SourceChunks ==
    source.kind = "test" =>
       /\ source.position <= Len(source.samples)
       /\ delivered = SubSeq(source.samples, 1, source.position)
       /\ returned.op = "read" =>
             /\ returned.count <= Len(frame)
             /\ SubSeq(frame, 1, returned.count) =
                   SubSeq(source.samples,
                          source.position - returned.count + 1,
                          source.position)
             /\ returned.count < Len(frame) =>
                   source.position = Len(source.samples)
       /\ \A buf \in CallerBuffers(0) :
             LET remaining == Len(source.samples) - source.position
                 r == TestAudioSource_read_samples(source, buf)
                 z == TestAudioSource_read_samples(
                          TestAudioSource_reset(source), buf)
             IN /\ r.count = (IF Len(buf) <= remaining THEN Len(buf)
                              ELSE remaining)
                /\ remaining = 0 => r.count = 0
                /\ r.source.position = source.position + r.count
                /\ Len(r.buffer) = Len(buf)
                /\ SubSeq(r.buffer, 1, r.count) =
                      SubSeq(source.samples, source.position + 1,
                             source.position + r.count)
                /\ SubSeq(z.buffer, 1, z.count) =
                      SubSeq(source.samples, 1, z.count)
                /\ z.count = (IF Len(buf) <= Len(source.samples)
                              THEN Len(buf) ELSE Len(source.samples))

\* All four samples 1, 2, 2, 1 have been delivered and a further read
\* into a buffer of three has returned 0.
C21_Witness ==
    /\ source.kind = "test" /\ source.samples = <<1, 2, 2, 1>>
    /\ delivered = <<1, 2, 2, 1>>
    /\ returned = [op |-> "read", count |-> 0]
    /\ Len(frame) = 3

\* The quotient lies in [-1.0, 1.0].
InUnit(q) ==
    IF q.den > 0
    THEN /\ q.num <= q.den
         /\ (q.num >= 0 \/ q.num + q.den >= 0)
    ELSE /\ q.den < 0
         /\ q.den <= q.num
         /\ (q.num <= 0 \/ q.num + q.den <= 0)

\* The sign of the quotient: -1, 0 or 1.
SignOf(q) == signum(q.num) * signum(q.den)

\* C25: every integer-encoded sample s of bit depth b that the WAV source
\* has just delivered is the quotient s / 2^(b-1): the divisor is the
\* positive power of two, and the quotient lies in [-1.0, 1.0] and has
\* the sign of s.
C25_WavNormalised ==
    (source.kind = "wav" /\ source.sample_format = "Int"
        /\ returned.op = "read") =>
       \A k \in 1..returned.count :
          LET s == source.data[source.position - returned.count + k]
              q == frame[k]
          IN /\ q.num = s
             /\ q.den > 0
             /\ q.den \div 2 = Pow2(source.bits_per_sample - 2)
             /\ InUnit(q)
             /\ SignOf(q) = signum(s)

\* Two confidences of a detection: at the tuning gate, where both gates
\* reject it, and above the calibration gate, where both accept it.
GateSides == {TuningGate, CalibrationGate + 10}

\* The app record shows its current note untouched: at MuteOuter if the
\* note has 3 strings and without a unison step otherwise, no pitch
\* detected and a deviation of 0.
StartsFresh(a) ==
    /\ IsSome(a.tuning)
    /\ LET t == Unwrap(a.tuning)
           n == Unwrap(order_note_at(a.current_note_idx))
       IN /\ t.note_index = a.current_note_idx
          /\ t.note_name = display_name(n)
          /\ t.tuning_step = (IF n.strings = 3 THEN "MuteOuter" ELSE "None")
          /\ t.detected_freq = None
          /\ t.cents_deviation = 0

\* From a to r the current note has changed: r is in Tuning and a was
\* not, or was at another index.
NoteChanged(a, r) ==
    /\ r.state = "Tuning"
    /\ a.state # "Tuning" \/ r.current_note_idx # a.current_note_idx

\* C22: whenever a key, a detection or a silence report changes the
\* current note (completion, skip at any unison step, start of a
\* session), and whenever a session is resumed, the note's screen starts
\* fresh: MuteOuter for 3 strings, no unison step otherwise, no pitch
\* detected, deviation 0.
C22_FreshSubStep ==
    /\ \A key \in Keys, ok \in BOOLEAN :
          LET r == handle_key(App, key, ok)
          IN NoteChanged(App, r) => StartsFresh(r)
    /\ \A freq \in DetectedFreqs, confidence \in GateSides :
          LET r == update_pitch(App, freq, confidence)
          IN NoteChanged(App, r) => StartsFresh(r)
    /\ NoteChanged(App, clear_pitch(App)) => StartsFresh(clear_pitch(App))
    /\ \A s \in ResumedSessions :
          LET r == App_with_session(s)
          IN r.state = "Tuning" /\ StartsFresh(r)

\* A session resumed at the first 3-string note, with A4 = 435 Hz, has
\* gone through a unison step there and moved on to the next note, which
\* starts at MuteOuter.
C22_Witness ==
    /\ state = "Tuning" /\ current_note_idx = 37
    /\ IsSome(session) /\ Unwrap(session).a4_reference = 43500
    /\ Len(Recorded(App)) = 37
    /\ Unwrap(tuning).tuning_step = "MuteOuter"
    /\ Unwrap(tuning).detected_freq = None

\* The CMND values detect computes for the current detector and buffer,
\* the lags it searches and the lags whose value is below the threshold.
CurrentCmnd ==
    LET tau_max == tau_max_of(detector, Len(buffer))
    IN cumulative_mean_normalized_difference(
           difference_function(buffer, tau_max), tau_max)

SearchedLags ==
    tau_min_of(detector)..(tau_max_of(detector, Len(buffer)) - 1)

LagsBelowThreshold ==
    {tau \in SearchedLags : CurrentCmnd[tau] < detector.threshold}

\* A searched lag whose CMND value no searched lag undercuts.
IsGlobalMinimum(tau) ==
    /\ tau \in SearchedLags
    /\ \A u \in SearchedLags : CurrentCmnd[tau] <= CurrentCmnd[u]

\* C23: when detect has analysed a buffer in which no searched lag has a
\* CMND value below the threshold, it has returned the result for a lag
\* of globally minimal CMND if that minimum is below 0.5, and no
\* detection if the minimum is 0.5 or more.
C23_Fallback ==
    (detection.done /\ detection.analysed /\ LagsBelowThreshold = {}) =>
       IF \E tau \in SearchedLags : CurrentCmnd[tau] < 500
       THEN \E tau \in SearchedLags :
               /\ IsGlobalMinimum(tau)
               /\ detection.result =
                     Some(pitch_result(detector, CurrentCmnd,
                                       tau_max_of(detector, Len(buffer)), tau))
       ELSE detection.result = None

\* Under the default threshold 0.1 no lag was below the threshold and the
\* fallback has returned a result.
C23_Witness ==
    /\ detection.done /\ detection.analysed
    /\ detector.threshold = DefaultThreshold
    /\ LagsBelowThreshold = {}
    /\ IsSome(detection.result)

\* The fallback has declined: no lag below the threshold 0.01, the
\* minimum at 0.5 or above, no detection.
C23_WitnessDeclined ==
    /\ detection.done /\ detection.analysed
    /\ detector.threshold = 10
    /\ LagsBelowThreshold = {}
    /\ \E tau \in SearchedLags : CurrentCmnd[tau] < CmndScale
    /\ detection.result = None

\* C29: whenever detect has returned a result, the result is the one for
\* the chosen lag, that lag is at least tau_min and below tau_max, and
\* its CMND value is below the larger of the threshold and 0.5; with the
\* default threshold 0.1 the confidence of the result is above 0.5.
C29_ChosenLag ==
    (detection.done /\ IsSome(detection.result)) =>
       /\ IsSome(chosen_lag(detector, buffer))
       /\ LET tau == Unwrap(chosen_lag(detector, buffer))
              tau_max == tau_max_of(detector, Len(buffer))
          IN /\ tau_min_of(detector) <= tau /\ tau < tau_max
             /\ CurrentCmnd[tau] <
                   (IF detector.threshold > 500 THEN detector.threshold
                    ELSE 500)
             /\ detection.result =
                   Some(pitch_result(detector, CurrentCmnd, tau_max, tau))
       /\ detector.threshold = DefaultThreshold =>
             Unwrap(detection.result).confidence > 500

\* Under the default threshold detect has returned a result for a lag
\* found below the threshold, with a confidence above 0.9.
C29_Witness ==
    /\ detection.done /\ IsSome(detection.result)
    /\ detector.threshold = DefaultThreshold
    /\ LagsBelowThreshold # {}
    /\ Unwrap(detection.result).confidence > 900

\* Every key that enters Calibration from another state leaves the
\* calibrator without samples.
EntersCalibrationEmpty ==
    \A key \in Keys :
       LET r == handle_key(App, key, TRUE)
       IN (state # "Calibration" /\ r.state = "Calibration") =>
             r.calibration.samples = <<>>

\* C24: the calibrator's samples are discarded when calibration completes
\* or is skipped: outside the Calibration state the calibrator holds no
\* samples, and Calibration is always entered with none.
C24_CalibratorDiscarded ==
    /\ state # "Calibration" => calibration.samples = <<>>
    /\ EntersCalibrationEmpty

\* C26: in Tuning the index is between 0 and 87, the session holds as
\* many CompletedNote records as the index, and the k-th record carries
\* the name of the k-th note of the tuning order; a key changes the index
\* by +1 or not at all, only the confirm key at the terminal unison step
\* and the skip key change it, and no audio event does.
C26_IndexRecords ==
    state = "Tuning" =>
       /\ 0 <= current_note_idx /\ current_note_idx <= 87
       /\ IsSome(session)
       /\ Len(Unwrap(session).completed_notes) = current_note_idx
       /\ \A k \in 1..current_note_idx :
             Unwrap(session).completed_notes[k].note_name =
                display_name(Unwrap(order_note_at(k - 1)))
       /\ \A key \in Keys, ok \in BOOLEAN :
             LET r == handle_key(App, key, ok)
             IN /\ r.current_note_idx \in
                      {current_note_idx, current_note_idx + 1}
                /\ r.current_note_idx # current_note_idx =>
                      \/ key = "s"
                      \/ key = " " /\ AtTerminalStep
                /\ Len(Recorded(r)) = r.current_note_idx
       /\ \A freq \in DetectedFreqs, confidence \in GateSides :
             update_pitch(App, freq, confidence).current_note_idx =
                current_note_idx
       /\ clear_pitch(App).current_note_idx = current_note_idx

\* A session started from mode selection in Concert mode is at the last
\* note with 87 records, the 37th of them made by a completing confirm
\* 3 cents sharp.
C26_Witness ==
    /\ state = "Tuning" /\ current_note_idx = 87
    /\ disk # None /\ Unwrap(disk).mode = "Concert"
    /\ Unwrap(session).completed_notes[37].final_cents = 3
    /\ Unwrap(session).completed_notes[87].final_cents = 0

\* Between app records a and r of the Tuning state nothing differs but
\* the live detected frequency and cents deviation of the screen.
OnlyLivePitchChanged(a, r) ==
    /\ IsSome(a.tuning) /\ IsSome(r.tuning)
    /\ r = [a EXCEPT !.tuning = r.tuning]
    /\ Unwrap(r.tuning) =
          [Unwrap(a.tuning) EXCEPT
              !.detected_freq = Unwrap(r.tuning).detected_freq,
              !.cents_deviation = Unwrap(r.tuning).cents_deviation]

\* Confidences below, at and above the tuning gate.
AroundTuningGate == {c \in Confidences : c <= TuningGate + 10}

\* C27: in Tuning, update_pitch and clear_pitch change only the live
\* detected frequency and cents deviation (state, index, session records,
\* A4 reference and unison step stay); in ModeSelect and Complete they
\* change nothing.
C27_AudioFrame ==
    /\ state = "Tuning" =>
          /\ \A freq \in DetectedFreqs, confidence \in AroundTuningGate :
                OnlyLivePitchChanged(App, update_pitch(App, freq, confidence))
          /\ OnlyLivePitchChanged(App, clear_pitch(App))
    /\ state \in {"ModeSelect", "Complete"} =>
          /\ \A freq \in DetectedFreqs, confidence \in Confidences :
                update_pitch(App, freq, confidence) = App
          /\ clear_pitch(App) = App

\* On the first 3-string note, at the TuneCenter step, a detection 7
\* cents flat is on display and the index is still 36 with 36 records.
C27_Witness ==
    /\ state = "Tuning" /\ current_note_idx = 36
    /\ Unwrap(tuning).tuning_step = "TuneCenter"
    /\ IsSome(Unwrap(tuning).detected_freq)
    /\ Unwrap(tuning).cents_deviation = 0 - 7
    /\ Len(Unwrap(session).completed_notes) = 36

\* The app record is at the first note of a session whose A4 reference,
\* temperament and target all come from 440 Hz.
StartsAt440(a) ==
    /\ a.state = "Tuning" /\ a.current_note_idx = 0
    /\ a.temperament = 44000
    /\ IsSome(a.session) /\ Unwrap(a.session).a4_reference = 44000
    /\ IsSome(a.tuning)
    /\ Unwrap(a.tuning).target_freq = frequency(44000, 21)

\* C30: whatever sessions came before, Enter on Concert Pitch and the
\* skip key in Calibration start a session with A4 = 440 Hz exactly; in
\* Tuning the target of the current note is computed from the session's
\* A4 reference, which no key or audio event changes, and a Concert
\* session has reference 440 Hz throughout.
C30_NoStaleCalibration ==
    /\ (state = "ModeSelect" /\ mode_select = "ConcertPitch") =>
          StartsAt440(handle_key(App, "Enter", TRUE))
    /\ state = "Calibration" => StartsAt440(handle_key(App, "s", TRUE))
    /\ state = "Tuning" =>
          /\ IsSome(session) /\ IsSome(tuning)
          /\ temperament = Unwrap(session).a4_reference
          /\ Unwrap(tuning).target_freq =
                frequency(Unwrap(session).a4_reference,
                          Unwrap(order_note_at(current_note_idx)).midi)
          /\ Unwrap(session).mode = "Concert" =>
                Unwrap(session).a4_reference = 44000
          /\ \A key \in Keys, ok \in BOOLEAN :
                LET r == handle_key(App, key, ok)
                IN r.state = "Tuning" =>
                      /\ r.temperament = temperament
                      /\ Unwrap(r.session).a4_reference =
                            Unwrap(session).a4_reference
          /\ \A freq \in DetectedFreqs, confidence \in GateSides :
                update_pitch(App, freq, confidence).temperament = temperament

\* After a Quick session calibrated to 400 Hz (still on disk) and a reset
\* from the summary, a Quick session whose calibration was skipped starts
\* at its first note with A4 = 440 Hz.
C30_Witness ==
    /\ state = "Tuning" /\ current_note_idx = 0
    /\ Unwrap(session).mode = "Quick"
    /\ Unwrap(session).a4_reference = 44000
    /\ temperament = 44000
    /\ calibration.samples = <<>>
    /\ IsSome(disk)
    /\ Unwrap(disk).mode = "Quick"
    /\ Unwrap(disk).a4_reference = 40000

\* In Tuning a skip press, whether or not its save succeeds, leads to
\* Tuning at the next index below the last note and to Complete on the
\* last note; the reference-tone key and the audio events stay in Tuning
\* at the same index.
SkipAdvances ==
    /\ \A ok \in BOOLEAN :
          LET r == handle_key(App, "s", ok)
          IN /\ r.current_note_idx = current_note_idx + 1
             /\ r.should_quit = should_quit
             /\ r.state = (IF current_note_idx < 87 THEN "Tuning"
                           ELSE "Complete")
    /\ LET r == handle_key(App, "r", TRUE)
       IN r.state = "Tuning" /\ r.current_note_idx = current_note_idx
    /\ \A freq \in DetectedFreqs, confidence \in GateSides :
          LET r == update_pitch(App, freq, confidence)
          IN r.state = "Tuning" /\ r.current_note_idx = current_note_idx
    /\ LET r == clear_pitch(App)
       IN r.state = "Tuning" /\ r.current_note_idx = current_note_idx

\* C28: a tuning session cannot get stuck.  In every Tuning state the
\* index is at most 87 and each skip press moves one note on, through
\* Tuning states only and into Complete from the last note, whatever
\* audio events and reference-tone toggles come in between; and when the
\* user keeps pressing skip, every session in Tuning reaches Complete
\* unless the user quits the app first.
C28_SkipTerminates ==
    /\ [](state = "Tuning" => current_note_idx <= 87 /\ SkipAdvances)
    /\ (state = "Tuning" /\ Running) ~> (state = "Complete" \/ ~Running)

\* A session has ended in which every one of the 88 notes was skipped.
C28_Witness ==
    /\ state = "Complete" /\ IsSome(complete)
    /\ Len(Unwrap(complete).completed_notes) = 88
    /\ \A k \in 1..88 : Unwrap(complete).completed_notes[k].final_cents = 0
    /\ Unwrap(complete).notes_in_tune = 88

====
